---- MODULE Spec2Model ----
(***************************************************************************)
(* readerwriterlock/rwlock.py: three reader-writer locks (RWLockRead,      *)
(* RWLockWrite, RWLockFair) built from threading.Lock mutexes and integer  *)
(* counters.                                                               *)
(*                                                                         *)
(* Every thread owns one guard (gen_rlock() / gen_wlock()).  pc[t] is the  *)
(* line of rwlock.py whose statement thread t executes next, Idle when t   *)
(* is outside every method of its guard.  One step of a method is one      *)
(* operation on the shared lock object: a mutex acquire or release, or a   *)
(* counter update together with the test that follows it (the counter is   *)
(* read back under the same mutex).                                        *)
(*                                                                         *)
(* A mutex field of rw_lock is TRUE when the threading.Lock is locked;     *)
(* any thread may release it.  taken[t] lists the mutexes that t's call in *)
(* progress has acquired and not released.  Time is abstract: a wait with  *)
(* a finite deadline on a locked mutex may expire at any moment, a wait on *)
(* an unlocked mutex succeeds.  built[t] is what t's acquire call has built *)
(* so far, in the order of its construction: the mutexes it took and the   *)
(* counters it incremented on the way forward.                             *)
(*                                                                         *)
(* A guard is also a context manager: scope[t] is where t stands in a      *)
(* `with guard:` statement and exc[t] the exception of its body.           *)
(***************************************************************************)
EXTENDS Integers, FiniteSets, Sequences

\* Number of guards made from the lock object, one thread each.
NumGuards == 3

Threads == 1 .. NumGuards

\* Clients that re-acquire a locked guard stop doing so once the counters
\* have reached this sum (each such call may add to a counter for good).
MaxCount == 3

\* The classes of rwlock.py.
Variants == {"RWLockRead", "RWLockWrite", "RWLockFair"}

\* A thread that is in no method of its guard.
Idle == 0

\* The timeouts clients pass to acquire(blocking, timeout).
Timeouts == {-2, -1, 0, 1}

\* The mutexes of the lock objects (fields of rw_lock besides the counters).
Mutexes ==
  {"resource", "lock_read_count", "lock_write_count", "lock_read_entry",
   "lock_read_try", "lock_read", "lock_write"}

VARIABLES
  variant,   \* which class the lock object is an instance of
  Readers,   \* the threads whose guard came from gen_rlock()
  rw_lock,   \* the lock object: its counters and its mutexes
  pc,        \* per thread: the line it executes next, or Idle
  deadline,  \* per thread: the local `deadline` of its acquire call
  _locked,   \* per guard: self._locked
  ret,       \* per thread: how its last call ended
  taken,     \* per thread: the mutexes its call in progress holds
  built,     \* per thread: what its acquire has built, oldest first
  scope,     \* per thread: its place in a `with guard:` statement
  exc        \* per thread: the exception raised in the body of the statement

\* The threads whose guard came from gen_wlock().
Writers == Threads \ Readers

vars ==
  <<variant, Readers, rw_lock, pc, deadline, _locked, ret, taken, built, scope,
    exc>>

----------------------------------------------------------------------------
\* RWLockRead.__init__, RWLockWrite.__init__, RWLockFair.__init__ and the
\* guards' __init__: counters 0, every mutex unlocked, _locked False.
Init ==
  /\ variant \in Variants
  /\ \E n \in 0 .. NumGuards : Readers = 1 .. n
  /\ rw_lock =
       [read_count |-> 0, write_count |-> 0, resource |-> FALSE,
        lock_read_count |-> FALSE, lock_write_count |-> FALSE,
        lock_read_entry |-> FALSE, lock_read_try |-> FALSE,
        lock_read |-> FALSE, lock_write |-> FALSE]
  /\ pc = [t \in Threads |-> Idle]
  /\ deadline = [t \in Threads |-> "None"]
  /\ _locked = [t \in Threads |-> FALSE]
  /\ ret = [t \in Threads |-> "none"]
  /\ taken = [t \in Threads |-> {}]
  /\ built = [t \in Threads |-> <<>>]
  /\ scope = [t \in Threads |-> "none"]
  /\ exc = [t \in Threads |-> "none"]

----------------------------------------------------------------------------
\* Control flow of one thread.

\* Continue at line l of the method.
Goto(t, l) ==
  /\ pc' = [pc EXCEPT ![t] = l]
  /\ UNCHANGED <<ret, deadline>>

\* The call ends: `return v`, or an exception named v propagates to the caller.
Return(t, v) ==
  /\ pc' = [pc EXCEPT ![t] = Idle]
  /\ ret' = [ret EXCEPT ![t] = v]
  /\ deadline' = [deadline EXCEPT ![t] = "None"]

\* The mutexes t's call holds after this step: those it held, plus and minus
\* the one the step takes or releases.
Holding(t, ms) == taken' = [taken EXCEPT ![t] = IF pc'[t] = Idle THEN {} ELSE ms]

\* The sequence s without the item x.
Without(s, x) == SelectSeq(s, LAMBDA y : y # x)

\* What t's acquire has built after this step: nothing once the call is over.
Building(t, s) == built' = [built EXCEPT ![t] = IF pc'[t] = Idle THEN <<>> ELSE s]

\* timeout = None if (blocking and timeout < 0) else (timeout if blocking else 0)
\* deadline = None if timeout is None else (time.time() + timeout)
Deadline(blocking, timeout) ==
  IF blocking /\ timeout < 0 THEN "None" ELSE "time"

\* Entry of a multi-stage acquire: the deadline is computed, then line l.
Enter(t, l) ==
  \E blocking \in BOOLEAN, timeout \in Timeouts :
    /\ pc' = [pc EXCEPT ![t] = l]
    /\ deadline' = [deadline EXCEPT ![t] = Deadline(blocking, timeout)]
    /\ ret' = [ret EXCEPT ![t] = "none"]
    /\ UNCHANGED <<taken, built>>

\* m.acquire(blocking=True, timeout=-1 if deadline is None
\*           else max(0, deadline - time.time()))
\* True: the mutex was free and is taken.  False: it is held and the
\* remaining time ran out.  With deadline None the thread waits.
MutexAcquire(t, m, OnTrue, OnFalse) ==
  \/ /\ ~rw_lock[m]
     /\ rw_lock' = [rw_lock EXCEPT ![m] = TRUE]
     /\ OnTrue
     /\ Holding(t, taken[t] \cup {m})
     /\ Building(t, Append(built[t], m))
  \/ /\ rw_lock[m]
     /\ deadline[t] # "None"
     /\ UNCHANGED rw_lock
     /\ OnFalse
     /\ Holding(t, taken[t])
     /\ Building(t, built[t])

\* A release or compensation path that goes on without taking the mutex.
MutexAcquireSkipped(t, m, Then) ==
  /\ UNCHANGED rw_lock
  /\ Then
  /\ Holding(t, taken[t])
  /\ Building(t, built[t])

\* m.acquire() on a release or compensation path: waits until the mutex is
\* free.  The mutex serializes the undoing; it is not part of what was built.
MutexAcquireForever(t, m, Then) ==
  /\ ~rw_lock[m]
  /\ rw_lock' = [rw_lock EXCEPT ![m] = TRUE]
  /\ Then
  /\ Holding(t, taken[t] \cup {m})
  /\ Building(t, built[t])

\* m.release(): threading.Lock raises RuntimeError on an unlocked lock, and
\* the exception leaves the method.
MutexRelease(t, m, Then) ==
  IF rw_lock[m]
  THEN /\ rw_lock' = [rw_lock EXCEPT ![m] = FALSE]
       /\ Then
       /\ Holding(t, taken[t] \ {m})
       /\ Building(t, Without(built[t], m))
  ELSE /\ UNCHANGED rw_lock
       /\ Return(t, "RuntimeError")
       /\ Holding(t, taken[t])
       /\ Building(t, built[t])

\* The first-of-cohort test made on the value before the increment.
IsFirstBeforeIncrement(count) == count = 0

\* The first-of-cohort test with >= for ==: every arrival takes the mutex.
IsFirstOrLater(count) == count >= 1

\* `if 1 == self._rw_lock.read_count` (write_count): the first of a cohort.
IsFirst(count) == count = 1

\* The last-of-cohort test made on the value before the decrement.
IsLastBeforeDecrement(count) == count = 1

\* The last-of-cohort test with <= 1 for == 0: the last but one leaves too.
IsLastButOne(count) == count <= 1

\* `if 0 == self._rw_lock.read_count` (write_count): the last of a cohort.
IsLast(count) == count = 0

\* release() without the usage check.
NotAcquiredUnchecked(t) == FALSE

\* `if not self._locked: raise RuntimeError("cannot release un-acquired lock")`
NotAcquired(t) == ~_locked[t]

\* Entry of every release(): the usage check, then self._locked = False and
\* line l.
EnterRelease(t, l) ==
  IF NotAcquired(t)
  THEN /\ Return(t, "RuntimeError")
       /\ UNCHANGED <<rw_lock, _locked, taken, built>>
  ELSE /\ _locked' = [_locked EXCEPT ![t] = FALSE]
       /\ pc' = [pc EXCEPT ![t] = l]
       /\ ret' = [ret EXCEPT ![t] = "none"]
       /\ UNCHANGED <<rw_lock, deadline, taken, built>>

\* self._locked = True; return True
SetLocked(t) ==
  /\ _locked' = [_locked EXCEPT ![t] = TRUE]
  /\ Return(t, "True")
  /\ Holding(t, taken[t])
  /\ Building(t, built[t])

\* self._rw_lock.read_count += 1 (write_count), then the test of the new value.
IncCount(t, c, first, other) ==
  /\ rw_lock' = [rw_lock EXCEPT ![c] = @ + 1]
  /\ Goto(t, IF IsFirst(rw_lock[c] + 1) THEN first ELSE other)
  /\ UNCHANGED taken
  /\ Building(t, Append(built[t], c))

\* A failure path that leaves the counter as incremented.
UndoCountForgotten(t, c, l) ==
  /\ UNCHANGED rw_lock
  /\ Goto(t, l)
  /\ UNCHANGED <<taken, built>>

\* self._rw_lock.read_count -= 1 (write_count) with no test after it.
UndoCount(t, c, l) ==
  /\ rw_lock' = [rw_lock EXCEPT ![c] = @ - 1]
  /\ Goto(t, l)
  /\ UNCHANGED taken
  /\ Building(t, Without(built[t], c))

\* self._rw_lock.read_count -= 1 (write_count), then the test of the new value.
DecCount(t, c, last, other) ==
  /\ rw_lock' = [rw_lock EXCEPT ![c] = @ - 1]
  /\ Goto(t, IF IsLast(rw_lock[c] - 1) THEN last ELSE other)
  /\ UNCHANGED taken
  /\ Building(t, Without(built[t], c))

----------------------------------------------------------------------------
\* class RWLockRead

\* RWLockRead._aReader.acquire
RWLockRead_aReader_acquire(t) ==
  /\ variant = "RWLockRead" /\ t \in Readers
  /\ UNCHANGED <<variant, Readers, scope, exc>>
  /\ \/ /\ pc[t] = Idle
        /\ Enter(t, 31)
        /\ UNCHANGED <<rw_lock, _locked>>
     \/ /\ pc[t] = 31
        /\ MutexAcquire(t, "lock_read_count", Goto(t, 36), Return(t, "False"))
        /\ UNCHANGED _locked
     \/ /\ pc[t] = 36
        /\ IncCount(t, "read_count", 38, 45)
        /\ UNCHANGED _locked
     \/ /\ pc[t] = 38
        /\ MutexAcquire(t, "resource", Goto(t, 45), Goto(t, 42))
        /\ UNCHANGED _locked
     \/ /\ pc[t] = 42
        /\ UndoCount(t, "read_count", 43)
        /\ UNCHANGED _locked
     \/ /\ pc[t] = 43
        /\ MutexRelease(t, "lock_read_count", Return(t, "False"))
        /\ UNCHANGED _locked
     \/ /\ pc[t] = 45
        /\ MutexRelease(t, "lock_read_count", Goto(t, 46))
        /\ UNCHANGED _locked
     \/ /\ pc[t] = 46
        /\ SetLocked(t)
        /\ UNCHANGED rw_lock

\* RWLockRead._aReader.release
RWLockRead_aReader_release(t) ==
  /\ variant = "RWLockRead" /\ t \in Readers
  /\ UNCHANGED <<variant, Readers, scope, exc>>
  /\ \/ /\ pc[t] = Idle
        /\ EnterRelease(t, 53)
     \/ /\ pc[t] = 53
        /\ MutexAcquireForever(t, "lock_read_count", Goto(t, 54))
        /\ UNCHANGED _locked
     \/ /\ pc[t] = 54
        /\ DecCount(t, "read_count", 56, 57)
        /\ UNCHANGED _locked
     \/ /\ pc[t] = 56
        /\ MutexRelease(t, "resource", Goto(t, 57))
        /\ UNCHANGED _locked
     \/ /\ pc[t] = 57
        /\ MutexRelease(t, "lock_read_count", Return(t, "None"))
        /\ UNCHANGED _locked

\* threading.Lock.acquire(blocking, timeout) rejects a timeout given with
\* blocking=False and a negative timeout other than -1 (ValueError).
LockArgsValid(blocking, timeout) ==
  IF blocking THEN timeout >= -1 ELSE timeout = -1

\* RWLockRead._aWriter.acquire: the arguments go to resource.acquire as given.
RWLockRead_aWriter_acquire(t) ==
  /\ variant = "RWLockRead" /\ t \in Writers
  /\ UNCHANGED <<variant, Readers, scope, exc>>
  /\ \/ /\ pc[t] = Idle
        /\ \E blocking \in BOOLEAN, timeout \in Timeouts :
             IF LockArgsValid(blocking, timeout)
             THEN /\ pc' = [pc EXCEPT ![t] = 77]
                  /\ deadline' =
                       [deadline EXCEPT
                          ![t] = IF blocking /\ timeout = -1 THEN "None" ELSE "time"]
                  /\ ret' = [ret EXCEPT ![t] = "none"]
             ELSE Return(t, "ValueError")
        /\ UNCHANGED <<rw_lock, _locked, taken, built>>
     \/ /\ pc[t] = 77
        /\ MutexAcquire(t, "resource",
                        /\ _locked' = [_locked EXCEPT ![t] = TRUE]
                        /\ Return(t, "True"),
                        /\ _locked' = [_locked EXCEPT ![t] = FALSE]
                        /\ Return(t, "False"))

\* RWLockRead._aWriter.release
RWLockRead_aWriter_release(t) ==
  /\ variant = "RWLockRead" /\ t \in Writers
  /\ UNCHANGED <<variant, Readers, scope, exc>>
  /\ \/ /\ pc[t] = Idle
        /\ EnterRelease(t, 84)
     \/ /\ pc[t] = 84
        /\ MutexRelease(t, "resource", Return(t, "None"))
        /\ UNCHANGED _locked

----------------------------------------------------------------------------
\* class RWLockWrite

\* RWLockWrite._aReader.acquire
RWLockWrite_aReader_acquire(t) ==
  /\ variant = "RWLockWrite" /\ t \in Readers
  /\ UNCHANGED <<variant, Readers, scope, exc>>
  /\ \/ /\ pc[t] = Idle
        /\ Enter(t, 128)
        /\ UNCHANGED <<rw_lock, _locked>>
     \/ /\ pc[t] = 128
        /\ MutexAcquire(t, "lock_read_entry", Goto(t, 133), Return(t, "False"))
        /\ UNCHANGED _locked
     \/ /\ pc[t] = 133
        /\ MutexAcquire(t, "lock_read_try", Goto(t, 139), Goto(t, 137))
        /\ UNCHANGED _locked
     \/ /\ pc[t] = 137
        /\ MutexRelease(t, "lock_read_entry", Return(t, "False"))
        /\ UNCHANGED _locked
     \/ /\ pc[t] = 139
        /\ MutexAcquire(t, "lock_read_count", Goto(t, 146), Goto(t, 143))
        /\ UNCHANGED _locked
     \/ /\ pc[t] = 143
        /\ MutexRelease(t, "lock_read_try", Goto(t, 144))
        /\ UNCHANGED _locked
     \/ /\ pc[t] = 144
        /\ MutexRelease(t, "lock_read_entry", Return(t, "False"))
        /\ UNCHANGED _locked
     \/ /\ pc[t] = 146
        /\ IncCount(t, "read_count", 148, 157)
        /\ UNCHANGED _locked
     \/ /\ pc[t] = 148
        /\ MutexAcquire(t, "resource", Goto(t, 157), Goto(t, 152))
        /\ UNCHANGED _locked
     \/ /\ pc[t] = 152
        /\ MutexRelease(t, "lock_read_try", Goto(t, 153))
        /\ UNCHANGED _locked
     \/ /\ pc[t] = 153
        /\ MutexRelease(t, "lock_read_entry", Goto(t, 154))
        /\ UNCHANGED _locked
     \/ /\ pc[t] = 154
        /\ UndoCount(t, "read_count", 155)
        /\ UNCHANGED _locked
     \/ /\ pc[t] = 155
        /\ MutexRelease(t, "lock_read_count", Return(t, "False"))
        /\ UNCHANGED _locked
     \/ /\ pc[t] = 157
        /\ MutexRelease(t, "lock_read_count", Goto(t, 158))
        /\ UNCHANGED _locked
     \/ /\ pc[t] = 158
        /\ MutexRelease(t, "lock_read_try", Goto(t, 159))
        /\ UNCHANGED _locked
     \/ /\ pc[t] = 159
        /\ MutexRelease(t, "lock_read_entry", Goto(t, 160))
        /\ UNCHANGED _locked
     \/ /\ pc[t] = 160
        /\ SetLocked(t)
        /\ UNCHANGED rw_lock

\* RWLockWrite._aReader.release
RWLockWrite_aReader_release(t) ==
  /\ variant = "RWLockWrite" /\ t \in Readers
  /\ UNCHANGED <<variant, Readers, scope, exc>>
  /\ \/ /\ pc[t] = Idle
        /\ EnterRelease(t, 167)
     \/ /\ pc[t] = 167
        /\ MutexAcquireForever(t, "lock_read_count", Goto(t, 168))
        /\ UNCHANGED _locked
     \/ /\ pc[t] = 168
        /\ DecCount(t, "read_count", 170, 171)
        /\ UNCHANGED _locked
     \/ /\ pc[t] = 170
        /\ MutexRelease(t, "resource", Goto(t, 171))
        /\ UNCHANGED _locked
     \/ /\ pc[t] = 171
        /\ MutexRelease(t, "lock_read_count", Return(t, "None"))
        /\ UNCHANGED _locked

\* RWLockWrite._aWriter.acquire
RWLockWrite_aWriter_acquire(t) ==
  /\ variant = "RWLockWrite" /\ t \in Writers
  /\ UNCHANGED <<variant, Readers, scope, exc>>
  /\ \/ /\ pc[t] = Idle
        /\ Enter(t, 193)
        /\ UNCHANGED <<rw_lock, _locked>>
     \/ /\ pc[t] = 193
        /\ MutexAcquire(t, "lock_write_count", Goto(t, 198), Return(t, "False"))
        /\ UNCHANGED _locked
     \/ /\ pc[t] = 198
        /\ IncCount(t, "write_count", 200, 207)
        /\ UNCHANGED _locked
     \/ /\ pc[t] = 200
        /\ MutexAcquire(t, "lock_read_try", Goto(t, 207), Goto(t, 204))
        /\ UNCHANGED _locked
     \/ /\ pc[t] = 204
        /\ UndoCount(t, "write_count", 205)
        /\ UNCHANGED _locked
     \/ /\ pc[t] = 205
        /\ MutexRelease(t, "lock_write_count", Return(t, "False"))
        /\ UNCHANGED _locked
     \/ /\ pc[t] = 207
        /\ MutexRelease(t, "lock_write_count", Goto(t, 208))
        /\ UNCHANGED _locked
     \/ /\ pc[t] = 208
        /\ MutexAcquire(t, "resource", Goto(t, 218), Goto(t, 212))
        /\ UNCHANGED _locked
     \/ /\ pc[t] = 212
        /\ MutexAcquireForever(t, "lock_write_count", Goto(t, 213))
        /\ UNCHANGED _locked
     \/ /\ pc[t] = 213
        /\ DecCount(t, "write_count", 215, 216)
        /\ UNCHANGED _locked
     \/ /\ pc[t] = 215
        /\ MutexRelease(t, "lock_read_try", Goto(t, 216))
        /\ UNCHANGED _locked
     \/ /\ pc[t] = 216
        /\ MutexRelease(t, "lock_write_count", Return(t, "False"))
        /\ UNCHANGED _locked
     \/ /\ pc[t] = 218
        /\ SetLocked(t)
        /\ UNCHANGED rw_lock

\* RWLockWrite._aWriter.release
RWLockWrite_aWriter_release(t) ==
  /\ variant = "RWLockWrite" /\ t \in Writers
  /\ UNCHANGED <<variant, Readers, scope, exc>>
  /\ \/ /\ pc[t] = Idle
        /\ EnterRelease(t, 225)
     \/ /\ pc[t] = 225
        /\ MutexRelease(t, "resource", Goto(t, 226))
        /\ UNCHANGED _locked
     \/ /\ pc[t] = 226
        /\ MutexAcquireForever(t, "lock_write_count", Goto(t, 227))
        /\ UNCHANGED _locked
     \/ /\ pc[t] = 227
        /\ DecCount(t, "write_count", 229, 230)
        /\ UNCHANGED _locked
     \/ /\ pc[t] = 229
        /\ MutexRelease(t, "lock_read_try", Goto(t, 230))
        /\ UNCHANGED _locked
     \/ /\ pc[t] = 230
        /\ MutexRelease(t, "lock_write_count", Return(t, "None"))
        /\ UNCHANGED _locked

----------------------------------------------------------------------------
\* class RWLockFair

\* RWLockFair._aReader.acquire
RWLockFair_aReader_acquire(t) ==
  /\ variant = "RWLockFair" /\ t \in Readers
  /\ UNCHANGED <<variant, Readers, scope, exc>>
  /\ \/ /\ pc[t] = Idle
        /\ Enter(t, 271)
        /\ UNCHANGED <<rw_lock, _locked>>
     \/ /\ pc[t] = 271
        /\ MutexAcquire(t, "lock_read", Goto(t, 276), Return(t, "False"))
        /\ UNCHANGED _locked
     \/ /\ pc[t] = 276
        /\ MutexAcquire(t, "lock_read_count", Goto(t, 282), Goto(t, 280))
        /\ UNCHANGED _locked
     \/ /\ pc[t] = 280
        /\ MutexRelease(t, "lock_read", Return(t, "False"))
        /\ UNCHANGED _locked
     \/ /\ pc[t] = 282
        /\ IncCount(t, "read_count", 284, 292)
        /\ UNCHANGED _locked
     \/ /\ pc[t] = 284
        /\ MutexAcquire(t, "lock_write", Goto(t, 292), Goto(t, 288))
        /\ UNCHANGED _locked
     \/ /\ pc[t] = 288
        /\ UndoCount(t, "read_count", 289)
        /\ UNCHANGED _locked
     \/ /\ pc[t] = 289
        /\ MutexRelease(t, "lock_read_count", Goto(t, 290))
        /\ UNCHANGED _locked
     \/ /\ pc[t] = 290
        /\ MutexRelease(t, "lock_read", Return(t, "False"))
        /\ UNCHANGED _locked
     \/ /\ pc[t] = 292
        /\ MutexRelease(t, "lock_read_count", Goto(t, 293))
        /\ UNCHANGED _locked
     \/ /\ pc[t] = 293
        /\ MutexRelease(t, "lock_read", Goto(t, 294))
        /\ UNCHANGED _locked
     \/ /\ pc[t] = 294
        /\ SetLocked(t)
        /\ UNCHANGED rw_lock

\* RWLockFair._aReader.release
RWLockFair_aReader_release(t) ==
  /\ variant = "RWLockFair" /\ t \in Readers
  /\ UNCHANGED <<variant, Readers, scope, exc>>
  /\ \/ /\ pc[t] = Idle
        /\ EnterRelease(t, 301)
     \/ /\ pc[t] = 301
        /\ MutexAcquireForever(t, "lock_read_count", Goto(t, 302))
        /\ UNCHANGED _locked
     \/ /\ pc[t] = 302
        /\ DecCount(t, "read_count", 304, 305)
        /\ UNCHANGED _locked
     \/ /\ pc[t] = 304
        /\ MutexRelease(t, "lock_write", Goto(t, 305))
        /\ UNCHANGED _locked
     \/ /\ pc[t] = 305
        /\ MutexRelease(t, "lock_read_count", Return(t, "None"))
        /\ UNCHANGED _locked

\* RWLockFair._aWriter.acquire
RWLockFair_aWriter_acquire(t) ==
  /\ variant = "RWLockFair" /\ t \in Writers
  /\ UNCHANGED <<variant, Readers, scope, exc>>
  /\ \/ /\ pc[t] = Idle
        /\ Enter(t, 327)
        /\ UNCHANGED <<rw_lock, _locked>>
     \/ /\ pc[t] = 327
        /\ MutexAcquire(t, "lock_read", Goto(t, 332), Return(t, "False"))
        /\ UNCHANGED _locked
     \/ /\ pc[t] = 332
        /\ MutexAcquire(t, "lock_write", Goto(t, 338), Goto(t, 336))
        /\ UNCHANGED _locked
     \/ /\ pc[t] = 336
        /\ MutexRelease(t, "lock_read", Return(t, "False"))
        /\ UNCHANGED _locked
     \/ /\ pc[t] = 338
        /\ SetLocked(t)
        /\ UNCHANGED rw_lock

\* RWLockFair._aWriter.release with its two releases in the other order.
RWLockFair_aWriter_release_swapped(t) ==
  /\ variant = "RWLockFair" /\ t \in Writers
  /\ UNCHANGED <<variant, Readers, scope, exc>>
  /\ \/ /\ pc[t] = Idle
        /\ EnterRelease(t, 345)
     \/ /\ pc[t] = 345
        /\ MutexRelease(t, "lock_read", Goto(t, 346))
        /\ UNCHANGED _locked
     \/ /\ pc[t] = 346
        /\ MutexRelease(t, "lock_write", Return(t, "None"))
        /\ UNCHANGED _locked

\* RWLockFair._aWriter.release that leaves lock_read locked.
RWLockFair_aWriter_release_keeps_lock_read(t) ==
  /\ variant = "RWLockFair" /\ t \in Writers
  /\ UNCHANGED <<variant, Readers, scope, exc>>
  /\ \/ /\ pc[t] = Idle
        /\ EnterRelease(t, 345)
     \/ /\ pc[t] = 345
        /\ MutexRelease(t, "lock_write", Return(t, "None"))
        /\ UNCHANGED _locked

\* RWLockFair._aWriter.release
RWLockFair_aWriter_release(t) ==
  /\ variant = "RWLockFair" /\ t \in Writers
  /\ UNCHANGED <<variant, Readers, scope, exc>>
  /\ \/ /\ pc[t] = Idle
        /\ EnterRelease(t, 345)
     \/ /\ pc[t] = 345
        /\ MutexRelease(t, "lock_write", Goto(t, 346))
        /\ UNCHANGED _locked
     \/ /\ pc[t] = 346
        /\ MutexRelease(t, "lock_read", Return(t, "None"))
        /\ UNCHANGED _locked

----------------------------------------------------------------------------
\* The clients.  acquire(t) and release(t) are the two methods of t's guard.

acquire(t) ==
  \/ RWLockRead_aReader_acquire(t)
  \/ RWLockRead_aWriter_acquire(t)
  \/ RWLockWrite_aReader_acquire(t)
  \/ RWLockWrite_aWriter_acquire(t)
  \/ RWLockFair_aReader_acquire(t)
  \/ RWLockFair_aWriter_acquire(t)

release(t) ==
  \/ RWLockRead_aReader_release(t)
  \/ RWLockRead_aWriter_release(t)
  \/ RWLockWrite_aReader_release(t)
  \/ RWLockWrite_aWriter_release(t)
  \/ RWLockFair_aReader_release(t)
  \/ RWLockFair_aWriter_release(t)

\* A client that alternates: it calls acquire only on a guard that is not
\* locked.  release may be called at any time.
Alternates(t) == pc[t] = Idle => ~_locked[t]

AlternatingAcquire(t) ==
  \/ Alternates(t) /\ RWLockRead_aReader_acquire(t)
  \/ Alternates(t) /\ RWLockRead_aWriter_acquire(t)
  \/ Alternates(t) /\ RWLockWrite_aReader_acquire(t)
  \/ Alternates(t) /\ RWLockWrite_aWriter_acquire(t)
  \/ Alternates(t) /\ RWLockFair_aReader_acquire(t)
  \/ Alternates(t) /\ RWLockFair_aWriter_acquire(t)

Next == \E t \in Threads : AlternatingAcquire(t) \/ release(t)

Spec == Init /\ [][Next]_vars

\* Clients that may also call acquire on a guard that is already locked.
Reacquires(t) ==
  (pc[t] = Idle /\ _locked[t]) =>
     rw_lock.read_count + rw_lock.write_count < MaxCount

ReacquiringAcquire(t) ==
  \/ Reacquires(t) /\ RWLockRead_aReader_acquire(t)
  \/ Reacquires(t) /\ RWLockRead_aWriter_acquire(t)
  \/ Reacquires(t) /\ RWLockWrite_aReader_acquire(t)
  \/ Reacquires(t) /\ RWLockWrite_aWriter_acquire(t)
  \/ Reacquires(t) /\ RWLockFair_aReader_acquire(t)
  \/ Reacquires(t) /\ RWLockFair_aWriter_acquire(t)

NextReacquire == \E t \in Threads : ReacquiringAcquire(t) \/ release(t)

SpecReacquire == Init /\ [][NextReacquire]_vars

\* A call of t that is no usage error: release only of a locked guard.
Releases(t) == pc[t] = Idle => _locked[t]

\* RWLockRead with readers that overlap: a reader calls release only while
\* another reader is in its critical section.  Every thread that can take a
\* step of an acquire or of a release eventually takes one.
Overlaps(t) ==
  pc[t] = Idle => \E u \in Readers \ {t} : pc[u] = Idle /\ _locked[u]

InitRead == Init /\ variant = "RWLockRead"

StarveAcquire(t) ==
  \/ Alternates(t) /\ RWLockRead_aReader_acquire(t)
  \/ Alternates(t) /\ RWLockRead_aWriter_acquire(t)

StarveRelease(t) ==
  \/ Overlaps(t) /\ RWLockRead_aReader_release(t)
  \/ RWLockRead_aWriter_release(t)

NextStarve == \E t \in Threads : StarveAcquire(t) \/ StarveRelease(t)

SpecStarve ==
  /\ InitRead
  /\ [][NextStarve]_vars
  /\ \A t \in Threads :
       /\ SF_vars(StarveAcquire(t))
       /\ SF_vars(Releases(t) /\ StarveRelease(t))

\* RWLockFair with mutexes that serve every waiter (strong fairness on the
\* steps inside a call) and critical sections that end (the release call of
\* a locked guard is eventually made).  Clients need not call acquire.
InitFair == Init /\ variant = "RWLockFair"

FairAcquire(t) ==
  \/ Alternates(t) /\ RWLockFair_aReader_acquire(t)
  \/ Alternates(t) /\ RWLockFair_aWriter_acquire(t)

FairRelease(t) ==
  \/ RWLockFair_aReader_release(t)
  \/ RWLockFair_aWriter_release(t)

NextFairLock == \E t \in Threads : FairAcquire(t) \/ FairRelease(t)

SpecFairLive ==
  /\ InitFair
  /\ [][NextFairLock]_vars
  /\ \A t \in Threads :
       /\ SF_vars(pc[t] # Idle /\ FairAcquire(t))
       /\ SF_vars(Releases(t) /\ FairRelease(t))

----------------------------------------------------------------------------
\* Scoped acquisition: `with guard: body`.  The statement calls
\* guard.__enter__(), runs the body, then calls guard.__exit__(...) whether
\* the body ended normally or raised; it re-raises the body's exception
\* unless __exit__ returned a true value.

\* __exit__ that returns True.
ExitSuppresses == TRUE

\* `return False`, the last line of every __exit__.
ExitValue == FALSE

\* __enter__: `self.acquire()`.  The first step makes the call, the second
\* takes its result: the value acquire returned is dropped and the body
\* runs; an exception of acquire leaves the statement.
__enter__(t) ==
  /\ pc[t] = Idle
  /\ \/ /\ scope[t] = "none"
        /\ scope' = [scope EXCEPT ![t] = "__enter__"]
        /\ exc' = [exc EXCEPT ![t] = "none"]
        /\ ret' = [ret EXCEPT ![t] = "none"]
     \/ /\ scope[t] = "__enter__" /\ ret[t] # "none"
        /\ scope' =
             [scope EXCEPT ![t] = IF ret[t] \in {"True", "False"} THEN "body" ELSE "none"]
        /\ exc' =
             [exc EXCEPT ![t] = IF ret[t] \in {"True", "False"} THEN "none" ELSE ret[t]]
        /\ UNCHANGED ret
  /\ UNCHANGED <<variant, Readers, rw_lock, pc, deadline, _locked, taken, built>>

\* The call __enter__ makes is acquire() with the defaults blocking=True,
\* timeout=-1: of the calls of acquire, the one that waits without deadline.
Entering(t) == scope[t] = "__enter__" /\ ret[t] = "none"

Defaults(t) == pc[t] = Idle => (pc'[t] # Idle /\ deadline'[t] = "None")

ScopedAcquire(t) ==
  \/ Entering(t) /\ RWLockRead_aReader_acquire(t) /\ Defaults(t)
  \/ Entering(t) /\ RWLockRead_aWriter_acquire(t) /\ Defaults(t)
  \/ Entering(t) /\ RWLockWrite_aReader_acquire(t) /\ Defaults(t)
  \/ Entering(t) /\ RWLockWrite_aWriter_acquire(t) /\ Defaults(t)
  \/ Entering(t) /\ RWLockFair_aReader_acquire(t) /\ Defaults(t)
  \/ Entering(t) /\ RWLockFair_aWriter_acquire(t) /\ Defaults(t)

\* The body of the statement raises an exception.
Body(t) ==
  /\ scope[t] = "body" /\ exc[t] = "none"
  /\ exc' = [exc EXCEPT ![t] = "raised"]
  /\ UNCHANGED
       <<variant, Readers, rw_lock, pc, deadline, _locked, ret, taken, built, scope>>

\* __exit__: `self.release()`, then `return False`.  The first step makes the
\* call, the second returns: an exception of release leaves __exit__ in place
\* of the body's, else the body's exception is re-raised unless the value
\* returned is true.
__exit__(t) ==
  /\ pc[t] = Idle
  /\ \/ /\ scope[t] = "body"
        /\ scope' = [scope EXCEPT ![t] = "__exit__"]
        /\ ret' = [ret EXCEPT ![t] = "none"]
        /\ UNCHANGED exc
     \/ /\ scope[t] = "__exit__" /\ ret[t] # "none"
        /\ scope' = [scope EXCEPT ![t] = "none"]
        /\ IF ret[t] = "None"
           THEN /\ ret' = [ret EXCEPT ![t] = IF ExitValue THEN "True" ELSE "False"]
                /\ exc' =
                     [exc EXCEPT
                        ![t] = IF exc[t] = "raised"
                               THEN IF ExitValue THEN "suppressed" ELSE "propagated"
                               ELSE "none"]
           ELSE /\ exc' = [exc EXCEPT ![t] = ret[t]]
                /\ UNCHANGED ret
  /\ UNCHANGED <<variant, Readers, rw_lock, pc, deadline, _locked, taken, built>>

Exiting(t) == scope[t] = "__exit__" /\ ret[t] = "none"

ScopedRelease(t) ==
  \/ Exiting(t) /\ RWLockRead_aReader_release(t)
  \/ Exiting(t) /\ RWLockRead_aWriter_release(t)
  \/ Exiting(t) /\ RWLockWrite_aReader_release(t)
  \/ Exiting(t) /\ RWLockWrite_aWriter_release(t)
  \/ Exiting(t) /\ RWLockFair_aReader_release(t)
  \/ Exiting(t) /\ RWLockFair_aWriter_release(t)

NextScope ==
  \E t \in Threads :
    \/ __enter__(t)
    \/ ScopedAcquire(t)
    \/ Body(t)
    \/ __exit__(t)
    \/ ScopedRelease(t)

SpecScope == Init /\ [][NextScope]_vars

----------------------------------------------------------------------------
\* Clients that only call acquire() with the defaults (blocking=True,
\* timeout=-1) on a guard that is not locked, and release() on a guard that
\* is.  A thread inside a call goes on whenever it can, and every critical
\* section ends: the release of a locked guard is eventually called.
BlockingAcquire(t) ==
  \/ Alternates(t) /\ RWLockRead_aReader_acquire(t) /\ Defaults(t)
  \/ Alternates(t) /\ RWLockRead_aWriter_acquire(t) /\ Defaults(t)
  \/ Alternates(t) /\ RWLockWrite_aReader_acquire(t) /\ Defaults(t)
  \/ Alternates(t) /\ RWLockWrite_aWriter_acquire(t) /\ Defaults(t)
  \/ Alternates(t) /\ RWLockFair_aReader_acquire(t) /\ Defaults(t)
  \/ Alternates(t) /\ RWLockFair_aWriter_acquire(t) /\ Defaults(t)

BalancedRelease(t) ==
  \/ Releases(t) /\ RWLockRead_aReader_release(t)
  \/ Releases(t) /\ RWLockRead_aWriter_release(t)
  \/ Releases(t) /\ RWLockWrite_aReader_release(t)
  \/ Releases(t) /\ RWLockWrite_aWriter_release(t)
  \/ Releases(t) /\ RWLockFair_aReader_release(t)
  \/ Releases(t) /\ RWLockFair_aWriter_release(t)

\* A step of the call t is in.
InCallStep(t) == pc[t] # Idle /\ (BlockingAcquire(t) \/ BalancedRelease(t))

NextBlocking == \E t \in Threads : BlockingAcquire(t) \/ BalancedRelease(t)

SpecBlocking ==
  /\ Init
  /\ [][NextBlocking]_vars
  /\ \A t \in Threads :
       /\ WF_vars(InCallStep(t))
       /\ WF_vars(pc[t] = Idle /\ BalancedRelease(t))

----------------------------------------------------------------------------
\* RWLockWrite with a single writer guard and readers that keep acquiring
\* and releasing, with any arguments.  The mutexes serve every waiter (strong
\* fairness on the steps inside a call) and critical sections end.
InitWrite == Init /\ variant = "RWLockWrite" /\ Cardinality(Writers) = 1

WriteAcquire(t) ==
  \/ Alternates(t) /\ RWLockWrite_aReader_acquire(t)
  \/ Alternates(t) /\ RWLockWrite_aWriter_acquire(t)

WriteRelease(t) ==
  \/ RWLockWrite_aReader_release(t)
  \/ RWLockWrite_aWriter_release(t)

NextWriteLock == \E t \in Threads : WriteAcquire(t) \/ WriteRelease(t)

SpecWriteLive ==
  /\ InitWrite
  /\ [][NextWriteLock]_vars
  /\ \A t \in Threads :
       /\ SF_vars(pc[t] # Idle /\ WriteAcquire(t))
       /\ SF_vars(Releases(t) /\ WriteRelease(t))

----------------------------------------------------------------------------
\* Where a thread stands.

\* Lines of the reader acquires after read_count += 1, and lines of the reader
\* releases up to read_count -= 1.
AfterReadInc ==
  {38, 42, 45, 46, 148, 152, 153, 154, 157, 158, 159, 160, 284, 288, 292, 293, 294}
BeforeReadDec == {53, 54, 167, 168, 301, 302}

\* Lines of RWLockWrite._aWriter.acquire after write_count += 1, and lines of
\* its release up to write_count -= 1.
AfterWriteInc == {200, 204, 207, 208, 212, 213, 218}
BeforeWriteDec == {225, 226, 227}

\* t's guard is locked and t is in its critical section.
InCriticalSection(t) == pc[t] = Idle /\ _locked[t]

\* read_count (write_count) includes an increment made by t.
InReadCount(t) ==
  t \in Readers /\ (InCriticalSection(t) \/ pc[t] \in AfterReadInc \cup BeforeReadDec)
InWriteCount(t) ==
  /\ t \in Writers /\ variant = "RWLockWrite"
  /\ (InCriticalSection(t) \/ pc[t] \in AfterWriteInc \cup BeforeWriteDec)

\* Every thread is outside every call and every guard is unlocked.
Quiescent == \A t \in Threads : pc[t] = Idle /\ ~_locked[t]

\* This step ends an acquire of t with False.
ReturnsFalse(t) == pc[t] # Idle /\ pc'[t] = Idle /\ ret'[t] = "False"

----------------------------------------------------------------------------
\* C1: mutual exclusion. In every variant, no writer guard is locked() while
\* another guard of the same lock (reader or writer) is locked().
MutualExclusion ==
  \A w \in Writers : \A t \in Threads \ {w} : ~(_locked[w] /\ _locked[t])

\* A writer is in its critical section, one thread waits without deadline
\* and another's timed acquire has failed.
MutualExclusionWitness ==
  \E w \in Writers : \E t, u \in Threads \ {w} :
    /\ InCriticalSection(w)
    /\ pc[t] # Idle /\ deadline[t] = "None"
    /\ ret[u] = "False"

\* C2: reader concurrency in RWLockRead. While no writer has ever called its
\* guard, a reader that must take `resource` (line 38) finds it unlocked, no
\* reader is on the failure path of lines 42-43, and a reader that waits for
\* lock_read_count (lines 31, 53) waits for a reader that is itself not
\* waiting: no reader waits for another reader's release().
NoWriterActed == \A w \in Writers : pc[w] = Idle /\ ret[w] = "none"

ReaderConcurrency ==
  (variant = "RWLockRead" /\ NoWriterActed) =>
     \A r \in Readers :
       /\ pc[r] = 38 => ~rw_lock.resource
       /\ pc[r] \notin {42, 43}
       /\ (pc[r] \in {31, 53} /\ rw_lock.lock_read_count) =>
            \E u \in Readers \ {r} :
              "lock_read_count" \in taken[u] /\ pc[u] \notin {31, 53}
       /\ InCriticalSection(r) => rw_lock.resource

\* All NumGuards guards are reader guards and all are locked() at once.
ReaderConcurrencyWitness ==
  /\ variant = "RWLockRead"
  /\ Readers = Threads
  /\ \A r \in Readers : InCriticalSection(r)
  /\ rw_lock.read_count = NumGuards

\* C3: counter recovery. Whenever an acquire returns False, in any variant
\* and for reader and writer guards: the guard is not locked, every mutex the
\* call had taken is released (lock_read_try taken by a first writer may stay
\* locked for the writers that joined it, write_count > 0), and read_count
\* and write_count count exactly the other guards that stand between their
\* increment and their decrement.
CounterRecovery ==
  [][\A t \in Threads :
       ReturnsFalse(t) =>
         /\ ~_locked'[t]
         /\ \A m \in taken[t] :
              \/ rw_lock[m] /\ ~rw_lock'[m]
              \/ /\ m = "lock_read_try" /\ t \in Writers
                 /\ rw_lock'[m] /\ rw_lock'.write_count > 0
         /\ rw_lock'.read_count =
              Cardinality({u \in Readers \ {t} : InReadCount(u)'})
         /\ rw_lock'.write_count =
              Cardinality({u \in Writers \ {t} : InWriteCount(u)'})]_vars

\* In RWLockWrite a writer's acquire has returned False while a reader is
\* in its critical section, and a second writer is on the compensation path
\* (line 216: lock_write_count re-taken, write_count decremented).
CounterRecoveryWitness ==
  \E w, v \in Writers : \E r \in Readers :
    /\ variant = "RWLockWrite"
    /\ ret[w] = "False" /\ pc[w] = Idle
    /\ pc[v] = 216
    /\ InCriticalSection(r)

\* C4: release balance. In every variant, when no thread is inside a call
\* and every guard is unlocked, both counters are 0 and every mutex is free.
ReleaseBalance ==
  Quiescent =>
    /\ rw_lock.read_count = 0
    /\ rw_lock.write_count = 0
    /\ \A m \in Mutexes : ~rw_lock[m]

\* Quiescent again after a completed release and a failed acquire.
ReleaseBalanceWitness ==
  /\ Quiescent
  /\ \E t, u \in Threads : ret[t] = "None" /\ ret[u] = "False"

\* C5: write preference in RWLockWrite. While a writer W is past step 2 of
\* its acquire (line 207 done) and has not yet decremented write_count,
\* lock_read_try is locked, no reader's call holds it, and no reader takes it
\* (line 133): a reader that starts acquire in that interval cannot become
\* locked() before W has completed.
PastStep2(w) ==
  /\ w \in Writers /\ variant = "RWLockWrite"
  /\ (InCriticalSection(w) \/ pc[w] \in {208, 212, 213, 218} \cup BeforeWriteDec)

WritePreference ==
  [][\A w \in Writers :
       PastStep2(w) =>
         /\ rw_lock.lock_read_try
         /\ \A r \in Readers :
              /\ "lock_read_try" \notin taken[r]
              /\ ~(pc[r] = 133 /\ pc'[r] = 139)]_vars

\* A writer waits for `resource` (line 208) behind a reader in its critical
\* section while a later reader waits at lock_read_try (line 133).
WritePreferenceWitness ==
  \E w \in Writers : \E r1, r2 \in Readers :
    /\ variant = "RWLockWrite"
    /\ pc[w] = 208
    /\ InCriticalSection(r1)
    /\ pc[r2] = 133

\* C6: reader preference in RWLockRead. With at least two readers that
\* overlap, once a writer waits without deadline at `resource` (line 77)
\* behind the reader cohort, it waits for ever: the cohort never dissolves,
\* and readers go on acquiring (line 46) again and again.
Starving(w) ==
  /\ variant = "RWLockRead" /\ w \in Writers
  /\ Cardinality(Readers) >= 2
  /\ pc[w] = 77 /\ deadline[w] = "None"
  /\ rw_lock.resource /\ rw_lock.read_count > 0
  /\ \A v \in Writers : ~_locked[v] /\ pc[v] # 84

WriterStarved ==
  /\ [][\A w \in Threads : Starving(w) => Starving(w)']_vars
  /\ (\E w \in Threads : Starving(w)) ~> (\E r \in Threads : r \in Readers /\ pc[r] = 46)

\* A writer waits without deadline while both readers are in their critical
\* sections.
WriterStarvedWitness ==
  \E w \in Writers :
    /\ Starving(w)
    /\ \A r \in Readers : InCriticalSection(r)

\* C7: fair ordering in RWLockFair. At the step in which a thread B takes
\* the turnstile lock_read (line 271 or 327), no other thread stands between
\* its own taking of lock_read and its release of it: every reader that took
\* it earlier has its place in read_count or has given up, and every writer
\* that took it earlier has left its critical section.
TakesTurnstile(t) == pc[t] \in {271, 327} /\ pc'[t] \in {276, 332}

PastTurnstile(t) ==
  \/ pc[t] \in {276, 280, 282, 284, 288, 289, 290, 292, 293}
  \/ pc[t] \in {332, 336, 338, 345, 346}
  \/ t \in Writers /\ InCriticalSection(t)

FairOrdering ==
  [][\A b \in Threads :
       (variant = "RWLockFair" /\ TakesTurnstile(b)) =>
          \A a \in Threads \ {b} : ~PastTurnstile(a)]_vars

\* A writer is in its critical section with a second thread waiting at the
\* turnstile without deadline, after a reader has been through.
FairOrderingWitness ==
  \E a \in Writers : \E b \in Threads \ {a} : \E r \in Readers :
    /\ variant = "RWLockFair"
    /\ InCriticalSection(a)
    /\ pc[b] \in {271, 327} /\ deadline[b] = "None"
    /\ ret[r] = "None"

\* C8: no starvation in RWLockFair. Under strongly fair mutexes and critical
\* sections that end, every acquire without deadline, of a reader or a writer
\* guard, eventually returns True.
FairAcquireLines == {271, 276, 282, 284, 292, 293, 294, 327, 332, 338}

Blocking(t) == pc[t] \in FairAcquireLines /\ deadline[t] = "None"

NoStarvation ==
  \A t \in Threads : Blocking(t) ~> (ret[t] = "True" /\ _locked[t])

\* A thread waits without deadline at the turnstile while a writer holds it
\* in its critical section and the third thread also waits.
NoStarvationWitness ==
  \E t, u \in Threads : \E w \in Writers :
    /\ t # u /\ t # w /\ u # w
    /\ Blocking(t) /\ pc[t] \in {271, 327}
    /\ InCriticalSection(w)
    /\ pc[u] # Idle

\* C9: release usage error. In every variant and for every guard, release()
\* on a guard whose _locked is False ends with RuntimeError("cannot release
\* un-acquired lock") and changes neither the lock object nor _locked.
ReleaseUsageError ==
  [][\A t \in Threads :
       (pc[t] = Idle /\ ~_locked[t] /\ release(t)) =>
         /\ ret'[t] = "RuntimeError"
         /\ pc'[t] = Idle
         /\ UNCHANGED <<rw_lock, _locked, taken, built>>]_vars

\* A release was refused on one guard while another guard holds the lock.
ReleaseUsageErrorWitness ==
  \E t, u \in Threads :
    /\ ret[t] = "RuntimeError" /\ pc[t] = Idle /\ ~_locked[t]
    /\ InCriticalSection(u)

\* C10: double acquire is rejected. acquire() on a guard whose _locked is
\* True ends with a usage error and changes neither the lock object nor
\* _locked.
DoubleAcquireRejected ==
  [][\A t \in Threads :
       (pc[t] = Idle /\ _locked[t] /\ acquire(t)) =>
         /\ ret'[t] \in {"RuntimeError", "ValueError"}
         /\ pc'[t] = Idle
         /\ UNCHANGED <<rw_lock, _locked, taken, built>>]_vars

\* C11: scoped acquisition, for every guard type. The body of `with guard:`
\* only runs with the guard locked. The step that leaves the statement comes
\* after one completed release(): the guard is not locked, the counters count
\* exactly the other guards, and when no other thread is in a statement both
\* counters are 0 and every mutex is free, as before the statement. __exit__
\* returns False: an exception of the body is propagated, never suppressed.
LeavesScope(t) == scope[t] = "__exit__" /\ scope'[t] = "none"

ScopedAcquisition ==
  [][\A t \in Threads :
       /\ scope'[t] = "body" => (_locked'[t] /\ pc'[t] = Idle)
       /\ exc'[t] # "suppressed"
       /\ LeavesScope(t) =>
            /\ ret[t] = "None" /\ ret'[t] = "False"
            /\ ~_locked'[t]
            /\ exc[t] = "raised" => exc'[t] = "propagated"
            /\ exc[t] = "none" => exc'[t] = "none"
            /\ rw_lock'.read_count =
                 Cardinality({u \in Readers \ {t} : InReadCount(u)'})
            /\ rw_lock'.write_count =
                 Cardinality({u \in Writers \ {t} : InWriteCount(u)'})
            /\ (\A u \in Threads \ {t} : scope[u] = "none") =>
                 /\ rw_lock'.read_count = 0
                 /\ rw_lock'.write_count = 0
                 /\ \A m \in Mutexes : ~rw_lock'[m]]_vars

\* A thread has left its statement with the exception of its body propagated
\* and no other thread in a statement, so that the lock is as it was before;
\* another thread has left a statement whose body ended normally.
ScopedAcquisitionWitness ==
  \E t, u \in Threads :
    /\ t # u
    /\ exc[t] = "propagated" /\ ret[t] = "False"
    /\ exc[u] = "none" /\ ret[u] = "False"
    /\ \A v \in Threads : scope[v] = "none" /\ ~_locked[v]
    /\ rw_lock.read_count = 0 /\ \A m \in Mutexes : ~rw_lock[m]

\* C12: auxiliary mutexes are never held across client code. Whenever some
\* guard is in its critical section and no thread is inside an acquire or a
\* release, lock_read_try, lock_read_entry and lock_read are all free.
NoCallInProgress == \A t \in Threads : pc[t] = Idle

AuxiliaryNeverHeld ==
  (NoCallInProgress /\ \E t \in Threads : InCriticalSection(t)) =>
     /\ ~rw_lock.lock_read_try
     /\ ~rw_lock.lock_read_entry
     /\ ~rw_lock.lock_read

\* C12 as amended: whenever no thread is inside an acquire or a release,
\* lock_read_entry is free, lock_read_try is locked exactly when a writer
\* guard of RWLockWrite is locked (write_count > 0), and lock_read is locked
\* exactly when a writer guard of RWLockFair is locked; while only reader
\* guards are locked all three are free.
WriterLocked(v) == variant = v /\ \E w \in Writers : InCriticalSection(w)

AuxiliaryHeldForWriters ==
  NoCallInProgress =>
     /\ ~rw_lock.lock_read_entry
     /\ rw_lock.lock_read_try <=> WriterLocked("RWLockWrite")
     /\ rw_lock.lock_read_try <=> rw_lock.write_count > 0
     /\ rw_lock.lock_read <=> WriterLocked("RWLockFair")

\* A writer of RWLockFair is in its critical section with lock_read locked,
\* no thread is inside a call, and another thread's timed acquire has failed
\* at the turnstile.
AuxiliaryHeldForWritersWitness ==
  \E w \in Writers : \E t \in Threads \ {w} :
    /\ variant = "RWLockFair"
    /\ NoCallInProgress
    /\ InCriticalSection(w)
    /\ rw_lock.lock_read
    /\ ret[t] = "False"

\* C13: reader gate of RWLockWrite (I4). In every state in which no writer
\* is between incrementing write_count and the end of its attempt on
\* lock_read_try (lines 200, 204), write_count > 0 if and only if
\* lock_read_try is locked for the writer cohort (locked, and in no reader's
\* hands). The gate is taken by the writer that moved write_count from 0 to
\* 1 and released by the writer that moved it from 1 to 0.
GateHeld ==
  rw_lock.lock_read_try /\ \A r \in Readers : "lock_read_try" \notin taken[r]

FirstWriterWaits == \E w \in Writers : pc[w] \in {200, 204}

GateTaken(t) ==
  t \in Writers /\ "lock_read_try" \notin taken[t] /\ "lock_read_try" \in taken'[t]

GateReleased(t) ==
  /\ t \in Writers /\ pc'[t] # pc[t]
  /\ rw_lock.lock_read_try /\ ~rw_lock'.lock_read_try

GateSteps ==
  \A t \in Threads :
    /\ GateTaken(t) =>
         (rw_lock.write_count = 1 /\ built[t] = <<"lock_write_count", "write_count">>)
    /\ GateReleased(t) =>
         (rw_lock.write_count = 0 /\ "lock_write_count" \in taken[t])

ReaderGate ==
  [][/\ (variant = "RWLockWrite" /\ ~FirstWriterWaits) =>
          (rw_lock.write_count > 0 <=> GateHeld)
     /\ (variant = "RWLockWrite" /\ ~FirstWriterWaits)' =>
          (rw_lock.write_count > 0 <=> GateHeld)'
     /\ GateSteps]_vars

\* C13 as amended: the states left out are also those in which the last
\* writer stands between its decrement of write_count to 0 and its release of
\* lock_read_try (lines 215, 229, lock_write_count in its hands).
LastWriterLeaves == \E w \in Writers : pc[w] \in {215, 229}

ReaderGateOutsideHandover ==
  [][/\ (variant = "RWLockWrite" /\ ~FirstWriterWaits /\ ~LastWriterLeaves) =>
          (rw_lock.write_count > 0 <=> GateHeld)
     /\ (variant = "RWLockWrite" /\ ~FirstWriterWaits /\ ~LastWriterLeaves)' =>
          (rw_lock.write_count > 0 <=> GateHeld)'
     /\ LastWriterLeaves => (rw_lock.write_count = 0 /\ GateHeld)
     /\ GateSteps]_vars

\* Two writers are in the cohort (one in its critical section, one waiting
\* for `resource`) behind a gate that only one of them took, and a reader
\* waits at the gate.
ReaderGateOutsideHandoverWitness ==
  \E w, v \in Writers : \E r \in Readers :
    /\ variant = "RWLockWrite"
    /\ InCriticalSection(w) /\ pc[v] = 208
    /\ rw_lock.write_count = 2 /\ GateHeld
    /\ pc[r] = 133

\* C14: counter updates are serialized. In all three variants, every step
\* that changes read_count is taken by a thread whose call holds
\* lock_read_count, before and after the step, and every step that changes
\* write_count by a thread whose call holds lock_write_count: on success
\* paths, failure paths and release paths alike.
CounterLock(c) == IF c = "read_count" THEN "lock_read_count" ELSE "lock_write_count"

CountersSerialized ==
  [][\A c \in {"read_count", "write_count"} :
       rw_lock'[c] # rw_lock[c] =>
         \E t \in Threads :
           /\ pc'[t] # pc[t]
           /\ CounterLock(c) \in taken[t] /\ rw_lock[CounterLock(c)]
           /\ CounterLock(c) \in taken'[t] /\ rw_lock'[CounterLock(c)]]_vars

\* In RWLockWrite a writer has decremented write_count on the compensation
\* path (line 216), a reader has completed a release and another reader is
\* counted in read_count.
CountersSerializedWitness ==
  \E w \in Writers : \E r, q \in Readers :
    /\ variant = "RWLockWrite"
    /\ pc[w] = 216
    /\ ret[r] = "None"
    /\ InCriticalSection(q) /\ rw_lock.read_count >= 1

\* C15: LIFO unwinding. On every failing path of every multi-stage acquire
\* the state built so far is undone in the exact reverse order of its
\* construction: each step of a failure path that undoes something (a counter
\* decrement, a mutex release) undoes the item built last, and nothing built
\* is left when the call returns.
UnwindLines ==
  {42, 43, 137, 143, 144, 152, 153, 154, 155, 204, 205, 212, 213, 215, 216, 280,
   288, 289, 290, 336}

LIFOUnwinding ==
  [][\A t \in Threads :
       pc[t] \in UnwindLines =>
         IF pc'[t] = Idle
         THEN Len(built[t]) <= 1
         ELSE \/ built'[t] = built[t]
              \/ built[t] # <<>> /\ built'[t] = SubSeq(built[t], 1, Len(built[t]) - 1)]_vars

\* C16: timed acquires respect their deadline. In all three variants, a
\* thread inside an acquire with a finite deadline (blocking=False, or
\* blocking=True with timeout >= 0) always has a step to take: every wait of
\* the call on a locked mutex ends when the deadline expires, so the call
\* returns whatever the other threads do; the compensation path of
\* RWLockWrite._aWriter.acquire included.
TimedCall(t) == pc[t] # Idle /\ deadline[t] # "None"

DeadlineRespected == \A t \in Threads : TimedCall(t) => ENABLED acquire(t)

\* C17: deadlock freedom, in each of the three variants, for clients that
\* use their own guard, call acquire() without deadline only on an unlocked
\* guard and release it eventually. Whenever some thread is inside acquire or
\* release, some thread has a step to take: a step of the call it is in, or
\* the release of its locked guard. And the lock never stops serving: again
\* and again a guard is locked or all guards are unlocked with no call in
\* progress, so that once the clients stop calling acquire the state with
\* all guards unlocked is reached.
NotStuck ==
  (\E t \in Threads : pc[t] # Idle) =>
     \E u \in Threads : InCriticalSection(u) \/ ENABLED InCallStep(u)

DeadlockFreedom ==
  /\ []NotStuck
  /\ []<>(Quiescent \/ \E t \in Threads : InCriticalSection(t))

\* Two threads are blocked inside acquire (no step of their call is enabled)
\* behind a third that is in its critical section.
DeadlockFreedomWitness ==
  \E t, u, v \in Threads :
    /\ t # u /\ t # v /\ u # v
    /\ InCriticalSection(t)
    /\ pc[u] # Idle /\ ~ENABLED InCallStep(u)
    /\ pc[v] # Idle /\ ~ENABLED InCallStep(v)

\* C18: writers are not starved in RWLockWrite. With a single writer and
\* readers that keep acquiring and releasing, under strongly fair mutexes and
\* critical sections that end, a writer inside acquire() without deadline
\* eventually returns True. At most one reader, the one that holds
\* lock_read_entry, waits for lock_read_try, and while the writer waits for
\* `resource` with the gate closed no reader stands between taking and
\* releasing lock_read_try: the readers still to drain were admitted before.
WriterAcquireLines == {193, 198, 200, 207, 208, 218}

WriterBlocking(t) ==
  t \in Writers /\ pc[t] \in WriterAcquireLines /\ deadline[t] = "None"

OneCompetitor ==
  /\ Cardinality({r \in Readers : pc[r] = 133}) <= 1
  /\ \A r \in Readers : pc[r] = 133 => "lock_read_entry" \in taken[r]
  /\ \A w \in Writers :
       pc[w] \in {207, 208} =>
         \A r \in Readers : "lock_read_try" \notin taken[r] /\ pc[r] # 148

WriterNotStarved ==
  /\ []OneCompetitor
  /\ \A t \in Threads : WriterBlocking(t) ~> (ret[t] = "True" /\ _locked[t])

\* The writer waits without deadline for `resource` behind two readers in
\* their critical sections.
WriterNotStarvedWitness ==
  \E w \in Writers : \E r, q \in Readers :
    /\ r # q
    /\ WriterBlocking(w) /\ pc[w] = 208
    /\ InCriticalSection(r) /\ InCriticalSection(q)

\* C19: first-reader acquisition never contends in the gated variants, for
\* clients that use their own guard and do not re-acquire. In RWLockWrite a
\* reader that has incremented read_count to 1 (line 148, holding
\* lock_read_entry, lock_read_try and lock_read_count) finds `resource`
\* free, and the failure branch of lines 152-155 is never entered; in
\* RWLockFair a reader at line 284 (holding lock_read and lock_read_count)
\* finds lock_write free, and lines 288-290 are never entered.
FirstReaderUncontended ==
  \A r \in Readers :
    /\ pc[r] = 148 =>
         /\ rw_lock.read_count = 1
         /\ {"lock_read_entry", "lock_read_try", "lock_read_count"} \subseteq taken[r]
         /\ ~rw_lock.resource
    /\ pc[r] \notin {152, 153, 154, 155}
    /\ pc[r] = 284 =>
         /\ rw_lock.read_count = 1
         /\ {"lock_read", "lock_read_count"} \subseteq taken[r]
         /\ ~rw_lock.lock_write
    /\ pc[r] \notin {288, 289, 290}

\* In RWLockFair a first reader with a deadline is about to take lock_write
\* (line 284) after a writer has released, while a writer waits at the
\* turnstile.
FirstReaderUncontendedWitness ==
  \E r \in Readers : \E w, v \in Writers :
    /\ variant = "RWLockFair"
    /\ pc[r] = 284 /\ deadline[r] = "time"
    /\ ret[w] = "None"
    /\ pc[v] = 327

\* C20: no release of a free mutex, in all three variants, for clients that
\* use their own guard and do not re-acquire. Whenever a thread stands at a
\* line that releases an internal mutex (on a success, failure or release
\* path, timed failures of other threads included), that mutex is locked,
\* also when another thread's call took it; and no call in progress ends
\* with the RuntimeError of threading.Lock.release.
ReleaseLines ==
  {<<43, "lock_read_count">>, <<45, "lock_read_count">>, <<56, "resource">>,
   <<57, "lock_read_count">>, <<84, "resource">>,
   <<137, "lock_read_entry">>, <<143, "lock_read_try">>, <<144, "lock_read_entry">>,
   <<152, "lock_read_try">>, <<153, "lock_read_entry">>, <<155, "lock_read_count">>,
   <<157, "lock_read_count">>, <<158, "lock_read_try">>, <<159, "lock_read_entry">>,
   <<170, "resource">>, <<171, "lock_read_count">>,
   <<205, "lock_write_count">>, <<207, "lock_write_count">>, <<215, "lock_read_try">>,
   <<216, "lock_write_count">>, <<225, "resource">>, <<229, "lock_read_try">>,
   <<230, "lock_write_count">>,
   <<280, "lock_read">>, <<289, "lock_read_count">>, <<290, "lock_read">>,
   <<292, "lock_read_count">>, <<293, "lock_read">>, <<304, "lock_write">>,
   <<305, "lock_read_count">>,
   <<336, "lock_read">>, <<345, "lock_write">>, <<346, "lock_read">>}

\* The mutex released at each of these lines.
ReleaseAt ==
  [l \in {p[1] : p \in ReleaseLines} |->
     CHOOSE m \in Mutexes : <<l, m>> \in ReleaseLines]

NoFreeRelease ==
  [][\A t \in Threads :
       /\ pc[t] \in DOMAIN ReleaseAt => rw_lock[ReleaseAt[pc[t]]]
       /\ pc[t] # Idle => ret'[t] # "RuntimeError"]_vars

\* The last writer of a cohort, on the compensation path of a failed timed
\* acquire, is about to release lock_read_try (line 215), which another
\* writer's call took.
NoFreeReleaseWitness ==
  \E w \in Writers :
    /\ pc[w] = 215
    /\ "lock_read_try" \notin taken[w]
    /\ rw_lock.lock_read_try

====
